---- MODULE Spec2Model ----
(***************************************************************************)
(* Model of src/reload/watcher.rs: ShaderGraphWatcher, the hot-reload      *)
(* coordinator.  One consumer thread runs new_watch_dir and then calls     *)
(* graph_no_reload / graph_force_reload / graph; the notify callback and   *)
(* the signal thread store `true` into the shared AtomicBool `changed`.    *)
(* ShaderGraphWatcher::build is external and blocking: it is modelled as a *)
(* call that is entered in one step and returns, with Ok(graph) or         *)
(* Err(message), in a later one, so that producers and the clock run while *)
(* a build is in progress.                                                 *)
(***************************************************************************)
EXTENDS Integers, Sequences, FiniteSets, TLC

\* ---------------------------------------------------------------- bounds
MaxTime == 760          \* the clock stops advancing past this instant (ms)
MaxBuilds == 3          \* at most this many invocations of build()
TickSteps == {150, 151} \* amounts of time (ms) that one clock step adds
LiveMaxTime == 455      \* in unbounded executions the clock's origin moves past this

\* ------------------------------------------------------------- constants
\* Duration::from_millis(300) in graph()
Debounce == 300

\* the two fallible calls inside build(): their error strings
ErrMsgs == {"shader_dir", "graph_from_sexp"}

\* no ShaderGraphWatcher (hence no shader_graph) exists yet
NoGraph == 0

\* graph() has not entered graph_force_reload yet
Never == -1

VARIABLES
    pc,            \* position of the consumer thread
    location,      \* self.path and self.config
    now,           \* Instant::now(), in ms
    changed,       \* Arc<AtomicBool>
    fs_watch,      \* the notify watcher is alive and delivering
    sig_thread,    \* the SIGUSR1 thread was spawned
    sig_pc,        \* position of the SIGUSR1 thread in its loop body
    last_log,      \* the last line printed by println!
    last_reload,   \* self.last_reload
    shader_graph,  \* self.shader_graph (id of the build that made it)
    builds,        \* number of invocations of build() so far
    built,         \* what the last returned build() returned
    via,           \* the public method executing graph_force_reload's body
    ret,           \* what the last returned public method returned
    open_ret,      \* what new_watch_dir returned
    consumed,      \* <<v>>: the last graph() ran changed.swap and got v; <<>>: it ran no swap
    marked,        \* history: the producers that stored true since the last swap
    absorbed,      \* history: the producers whose stores the last swap consumed
    attempt_done,  \* history: instant at which the last build() returned to the watcher
    last_ok,       \* history: graph of the most recent build() that returned Ok
    last_auto,     \* history: instant at which graph() last entered graph_force_reload
    stored_after   \* history: a producer stored true since the last build() returned

vars == <<pc, location, sig_pc, now, changed, fs_watch, sig_thread, last_log,
          last_reload,
          shader_graph, builds, built, via, ret, open_ret, consumed, marked,
          absorbed, attempt_done, last_ok, last_auto, stored_after>>

\* ------------------------------------------------------------ WatchResult
NoChange == [kind |-> "NoChange", msg |-> ""]
Rebuilt == [kind |-> "Rebuilt", msg |-> ""]
Err(m) == [kind |-> "Err", msg |-> m]
\* a method that returns no WatchResult (graph_no_reload), or no call yet
NoResult == [kind |-> "None", msg |-> ""]

\* ------------------------------------------- Result<ShaderGraph, String>
BuildOk(g) == [ok |-> TRUE, graph |-> g, error |-> ""]
BuildErr(m) == [ok |-> FALSE, graph |-> NoGraph, error |-> m]
NotBuilt == [ok |-> FALSE, graph |-> NoGraph, error |-> "none"]

\* build(): the n-th invocation yields a fresh graph n, or one of the errors
build(n) == {BuildOk(n)} \cup {BuildErr(m) : m \in ErrMsgs}

\* Result<ShaderGraphWatcher, String>, or the unwrap() panic
OpenNone == [kind |-> "None", msg |-> ""]
OpenOk == [kind |-> "Ok", msg |-> ""]
OpenErr(m) == [kind |-> "Err", msg |-> m]
OpenPanic == [kind |-> "Panic", msg |-> ""]

Init ==
    /\ pc = "new"
    /\ location = [path |-> "shaders", config |-> "shaders/cfg"]
    /\ now = 0
    /\ changed = FALSE
    /\ fs_watch = FALSE
    /\ sig_thread = FALSE
    /\ sig_pc = "wait"
    /\ last_log = "none"
    /\ last_reload = 0
    /\ shader_graph = NoGraph
    /\ builds = 0
    /\ built = NotBuilt
    /\ via = "none"
    /\ ret = [op |-> "none", graph |-> NoGraph, result |-> NoResult]
    /\ open_ret = OpenNone
    /\ consumed = <<>>
    /\ marked = {}
    /\ absorbed = {}
    /\ attempt_done = 0
    /\ last_ok = NoGraph
    /\ last_auto = Never
    /\ stored_after = FALSE

\* ------------------------------------------------------------- the clock
Tick(d) ==
    /\ now + d <= MaxTime
    /\ now' = now + d
    /\ UNCHANGED <<pc, changed, fs_watch, sig_thread, last_log, last_reload,
                   shader_graph, builds, built, via, ret, open_ret, consumed,
                   marked, absorbed, attempt_done, last_ok, last_auto,
                   stored_after, location, sig_pc>>

\* ------------------------------------------------------------- producers
\* variant: the callback flips the flag (fetch_xor) in place of storing true
FsEvent_Toggle ==
    /\ fs_watch
    /\ changed' = ~changed
    /\ marked' = marked \cup {"notify"}
    /\ stored_after' = TRUE
    /\ UNCHANGED <<pc, now, fs_watch, sig_thread, last_log, last_reload,
                   shader_graph, builds, built, via, ret, open_ret, consumed,
                   absorbed, attempt_done, last_ok, last_auto, location,
                   sig_pc>>

\* the notify callback, res = Ok(_): changed.store(true, SeqCst)
FsEvent ==
    /\ fs_watch
    /\ changed' = TRUE
    /\ marked' = marked \cup {"notify"}
    /\ stored_after' = TRUE
    /\ UNCHANGED <<pc, now, fs_watch, sig_thread, last_log, last_reload,
                   shader_graph, builds, built, via, ret, open_ret, consumed,
                   absorbed, attempt_done, last_ok, last_auto, location,
                   sig_pc>>

\* variant: the Err arm of the callback stores true as the Ok arm does
FsError_Marks ==
    /\ fs_watch
    /\ last_log' = "watch_error"
    /\ changed' = TRUE
    /\ UNCHANGED <<pc, now, fs_watch, sig_thread, last_reload,
                   shader_graph, builds, built, via, ret, open_ret, consumed,
                   marked, absorbed, attempt_done, last_ok, last_auto,
                   stored_after, location, sig_pc>>

\* the notify callback, res = Err(e): println!("[warn] Watch error ...")
FsError ==
    /\ fs_watch
    /\ last_log' = "watch_error"
    /\ UNCHANGED <<pc, now, changed, fs_watch, sig_thread, last_reload,
                   shader_graph, builds, built, via, ret, open_ret, consumed,
                   marked, absorbed, attempt_done, last_ok, last_auto,
                   stored_after, location, sig_pc>>

\* variant: the signal thread stores false
Signal_StoresFalse ==
    /\ sig_thread
    /\ sig_pc = "wait"
    /\ changed' = FALSE
    /\ marked' = marked \cup {"signal"}
    /\ stored_after' = TRUE
    /\ sig_pc' = "print"
    /\ UNCHANGED <<pc, now, fs_watch, sig_thread, last_log, last_reload,
                   shader_graph, builds, built, via, ret, open_ret, consumed,
                   absorbed, attempt_done, last_ok, last_auto, location>>

\* the signal thread, s.forever() yields: changed.store(true, SeqCst)
Signal ==
    /\ sig_thread
    /\ sig_pc = "wait"
    /\ changed' = TRUE
    /\ marked' = marked \cup {"signal"}
    /\ stored_after' = TRUE
    /\ sig_pc' = "print"
    /\ UNCHANGED <<pc, now, fs_watch, sig_thread, last_log, last_reload,
                   shader_graph, builds, built, via, ret, open_ret, consumed,
                   absorbed, attempt_done, last_ok, last_auto, location>>

\* the signal thread, after its store: println!("[info] Received signal ..")
\* (it takes the stdout lock, so it can come any time after the store)
SignalPrint ==
    /\ sig_thread
    /\ sig_pc = "print"
    /\ last_log' = "signal"
    /\ sig_pc' = "wait"
    /\ UNCHANGED <<pc, now, changed, fs_watch, sig_thread, last_reload,
                   shader_graph, builds, built, via, ret, open_ret, consumed,
                   marked, absorbed, attempt_done, last_ok, last_auto,
                   stored_after, location>>

\* ---------------------------------------------------------- new_watch_dir
\* variant: a setup error is dropped (.ok()) and construction goes on
NewWatcher_IgnoresFailure(ok) ==
    /\ pc = "new"
    /\ fs_watch' = ok
    /\ pc' = "signals"
    /\ UNCHANGED open_ret
    /\ UNCHANGED <<now, changed, sig_thread, last_log, last_reload,
                   shader_graph, builds, built, via, ret, consumed, marked,
                   absorbed, attempt_done, last_ok, last_auto, stored_after,
                   location, sig_pc>>

\* RecommendedWatcher::new(..).unwrap(); watcher.watch(..).unwrap()
NewWatcher(ok) ==
    /\ pc = "new"
    /\ IF ok
         THEN /\ fs_watch' = TRUE
              /\ pc' = "signals"
              /\ UNCHANGED open_ret
         ELSE /\ pc' = "panicked"
              /\ open_ret' = OpenPanic
              /\ UNCHANGED fs_watch
    /\ UNCHANGED <<now, changed, sig_thread, last_log, last_reload,
                   shader_graph, builds, built, via, ret, consumed, marked,
                   absorbed,
                   attempt_done, last_ok, last_auto,
                   stored_after, location, sig_pc>>

\* Signals::new(&[SIGUSR1]) and the match on it; then build() is entered
\* variant: Signals::new(..) is unwrapped, its error panics
SignalsNew_Fatal(ok) ==
    /\ pc = "signals"
    /\ IF ok
         THEN /\ sig_thread' = TRUE
              /\ builds' = builds + 1
              /\ via' = "new_watch_dir"
              /\ pc' = "first_build"
              /\ UNCHANGED <<open_ret, fs_watch>>
         ELSE /\ pc' = "panicked"
              /\ open_ret' = OpenPanic
              /\ fs_watch' = FALSE
              /\ UNCHANGED <<sig_thread, builds, via>>
    /\ UNCHANGED <<now, changed, last_log, last_reload, shader_graph, built,
                   ret, consumed, marked, absorbed, attempt_done, last_ok,
                   last_auto, stored_after, location, sig_pc>>

SignalsNew(ok) ==
    /\ pc = "signals"
    /\ IF ok
         THEN sig_thread' = TRUE /\ UNCHANGED last_log
         ELSE last_log' = "signal_listen_error" /\ UNCHANGED sig_thread
    /\ builds' = builds + 1
    /\ via' = "new_watch_dir"
    /\ pc' = "first_build"
    /\ UNCHANGED <<now, changed, fs_watch, last_reload, shader_graph, built,
                   ret, open_ret, consumed, marked, absorbed, attempt_done,
                   last_ok,
                   last_auto,
                   stored_after, location, sig_pc>>

\* variant: the ? is missing, the struct is made whatever build() returned
FirstBuilt_IgnoresError(r) ==
    /\ pc = "first_build"
    /\ built' = r
    /\ stored_after' = FALSE
    /\ shader_graph' = r.graph
    /\ last_reload' = now
    /\ attempt_done' = now
    /\ last_ok' = IF r.ok THEN r.graph ELSE last_ok
    /\ open_ret' = OpenOk
    /\ pc' = "idle"
    /\ UNCHANGED <<now, changed, fs_watch, sig_thread, last_log, builds, via,
                   ret, consumed, marked, absorbed, last_auto, location,
                   sig_pc>>

\* variant: the flag is reset once the first build is done
FirstBuilt_ClearsFlag(r) ==
    /\ pc = "first_build"
    /\ built' = r
    /\ stored_after' = FALSE
    /\ changed' = FALSE
    /\ IF r.ok
         THEN /\ shader_graph' = r.graph
              /\ last_reload' = now
              /\ attempt_done' = now
              /\ last_ok' = r.graph
              /\ open_ret' = OpenOk
              /\ pc' = "idle"
              /\ UNCHANGED fs_watch
         ELSE /\ open_ret' = OpenErr(r.error)
              /\ pc' = "open_err"
              /\ fs_watch' = FALSE
              /\ UNCHANGED <<shader_graph, last_reload, attempt_done, last_ok>>
    /\ UNCHANGED <<now, sig_thread, last_log, builds, via, ret, consumed,
                   marked, absorbed, last_auto, location, sig_pc>>

\* build(..)? returns r; on Ok the struct is made with last_reload = now
FirstBuilt(r) ==
    /\ pc = "first_build"
    /\ built' = r
    /\ stored_after' = FALSE
    /\ IF r.ok
         THEN /\ shader_graph' = r.graph
              /\ last_reload' = now
              /\ attempt_done' = now
              /\ last_ok' = r.graph
              /\ open_ret' = OpenOk
              /\ pc' = "idle"
              /\ UNCHANGED fs_watch
         ELSE /\ open_ret' = OpenErr(r.error)
              /\ pc' = "open_err"
              /\ fs_watch' = FALSE
              /\ UNCHANGED <<shader_graph, last_reload, attempt_done, last_ok>>
    /\ UNCHANGED <<now, changed, sig_thread, last_log, builds, via, ret,
                   consumed, marked, absorbed, last_auto, location, sig_pc>>

\* --------------------------------------------------------- graph_no_reload
\* variant: the accessor clears the flag
graph_no_reload_Clears ==
    /\ pc = "idle"
    /\ changed' = FALSE
    /\ ret' = [op |-> "graph_no_reload", graph |-> shader_graph,
               result |-> NoResult]
    /\ UNCHANGED <<pc, now, fs_watch, sig_thread, last_log,
                   last_reload, shader_graph, builds, built, via, open_ret,
                   consumed, marked, absorbed, attempt_done, last_ok,
                   last_auto, stored_after, location, sig_pc>>

graph_no_reload ==
    /\ pc = "idle"
    /\ ret' = [op |-> "graph_no_reload", graph |-> shader_graph,
               result |-> NoResult]
    /\ UNCHANGED <<pc, now, changed, fs_watch, sig_thread, last_log,
                   last_reload, shader_graph, builds, built, via, open_ret,
                   consumed, marked, absorbed, attempt_done, last_ok, last_auto,
                   stored_after, location, sig_pc>>

\* ------------------------------------------------------ graph_force_reload
\* variant: the result's graph is stored whatever the result
NextGraph_AlwaysReplace(r, held) == r.graph

\* variant: the Ok arm forgets to store the new graph
NextGraph_NeverReplace(r, held) == held

\* the match on build()'s result: the graph held afterwards
NextGraph(r, held) == IF r.ok THEN r.graph ELSE held

\* variant: the error message is dropped
WatchResultOf_NoMessage(r) == IF r.ok THEN Rebuilt ELSE Err("")

\* the match on build()'s result: the WatchResult
WatchResultOf(r) == IF r.ok THEN Rebuilt ELSE Err(r.error)

\* graph_force_reload is entered (by the method named caller): build() starts
EnterForceReload(caller) ==
    /\ builds < MaxBuilds
    /\ builds' = builds + 1
    /\ via' = caller
    /\ last_auto' = IF caller = "graph" THEN now ELSE last_auto
    /\ pc' = "reloading"

\* variant: a forced reload made within the debounce interval does nothing
graph_force_reload_Debounced ==
    /\ pc = "idle"
    /\ IF now - last_reload > Debounce
         THEN /\ EnterForceReload("graph_force_reload")
              /\ UNCHANGED ret
         ELSE /\ ret' = [op |-> "graph_force_reload", graph |-> shader_graph,
                         result |-> NoChange]
              /\ UNCHANGED <<pc, builds, via, last_auto>>
    /\ UNCHANGED <<now, changed, fs_watch, sig_thread, last_log, last_reload,
                   shader_graph, built, open_ret, consumed, marked, absorbed,
                   attempt_done, last_ok,
                   stored_after, location, sig_pc>>

\* variant: a forced reload consumes the flag as graph() does
graph_force_reload_Consumes ==
    /\ pc = "idle"
    /\ EnterForceReload("graph_force_reload")
    /\ changed' = FALSE
    /\ UNCHANGED <<now, fs_watch, sig_thread, last_log, last_reload,
                   shader_graph, built, ret, open_ret, consumed, marked,
                   absorbed, attempt_done, last_ok, stored_after, location,
                   sig_pc>>

\* a direct call of graph_force_reload
graph_force_reload ==
    /\ pc = "idle"
    /\ EnterForceReload("graph_force_reload")
    /\ UNCHANGED <<now, changed, fs_watch, sig_thread, last_log, last_reload,
                   shader_graph, built, ret, open_ret, consumed, marked,
                   absorbed,
                   attempt_done, last_ok,
                   stored_after, location, sig_pc>>

\* variant: last_reload is set in the Ok arm only
Reloaded_ClockOnSuccessOnly(r) ==
    /\ pc = "reloading"
    /\ built' = r
    /\ stored_after' = FALSE
    /\ shader_graph' = NextGraph(r, shader_graph)
    /\ last_reload' = IF r.ok THEN now ELSE last_reload
    /\ attempt_done' = now
    /\ last_ok' = IF r.ok THEN r.graph ELSE last_ok
    /\ ret' = [op |-> via, graph |-> shader_graph', result |-> WatchResultOf(r)]
    /\ pc' = "idle"
    /\ UNCHANGED <<now, changed, fs_watch, sig_thread, last_log, builds, via,
                   open_ret, consumed, marked, absorbed, last_auto, location,
                   sig_pc>>

\* variant: last_reload is not set by graph_force_reload
Reloaded_NoClockReset(r) ==
    /\ pc = "reloading"
    /\ built' = r
    /\ stored_after' = FALSE
    /\ shader_graph' = NextGraph(r, shader_graph)
    /\ attempt_done' = now
    /\ last_ok' = IF r.ok THEN r.graph ELSE last_ok
    /\ ret' = [op |-> via, graph |-> shader_graph', result |-> WatchResultOf(r)]
    /\ pc' = "idle"
    /\ UNCHANGED <<now, changed, fs_watch, sig_thread, last_log, builds, via,
                   open_ret, consumed, marked, absorbed, last_auto,
                   last_reload, location, sig_pc>>

\* variant: the Err arm sets the flag again, so that the build is retried
Reloaded_RetryOnFailure(r) ==
    /\ pc = "reloading"
    /\ built' = r
    /\ stored_after' = FALSE
    /\ shader_graph' = NextGraph(r, shader_graph)
    /\ last_reload' = now
    /\ attempt_done' = now
    /\ last_ok' = IF r.ok THEN r.graph ELSE last_ok
    /\ changed' = IF r.ok THEN changed ELSE TRUE
    /\ ret' = [op |-> via, graph |-> shader_graph', result |-> WatchResultOf(r)]
    /\ pc' = "idle"
    /\ UNCHANGED <<now, fs_watch, sig_thread, last_log, builds, via,
                   open_ret, consumed, marked, absorbed, last_auto, location,
                   sig_pc>>

\* variant: the flag is reset when a rebuild is done
Reloaded_ClearsFlag(r) ==
    /\ pc = "reloading"
    /\ built' = r
    /\ stored_after' = FALSE
    /\ shader_graph' = NextGraph(r, shader_graph)
    /\ last_reload' = now
    /\ attempt_done' = now
    /\ last_ok' = IF r.ok THEN r.graph ELSE last_ok
    /\ changed' = FALSE
    /\ ret' = [op |-> via, graph |-> shader_graph', result |-> WatchResultOf(r)]
    /\ pc' = "idle"
    /\ UNCHANGED <<now, fs_watch, sig_thread, last_log, builds, via,
                   open_ret, consumed, marked, absorbed, last_auto, location,
                   sig_pc>>

\* build() returns r to graph_force_reload, which finishes and returns
Reloaded(r) ==
    /\ pc = "reloading"
    /\ built' = r
    /\ stored_after' = FALSE
    /\ shader_graph' = NextGraph(r, shader_graph)
    /\ last_reload' = now
    /\ attempt_done' = now
    /\ last_ok' = IF r.ok THEN r.graph ELSE last_ok
    /\ ret' = [op |-> via, graph |-> shader_graph', result |-> WatchResultOf(r)]
    /\ pc' = "idle"
    /\ UNCHANGED <<now, changed, fs_watch, sig_thread, last_log, builds, via,
                   open_ret, consumed, marked, absorbed, last_auto, location,
                   sig_pc>>

\* ------------------------------------------------------------------ graph
\* self.last_reload.elapsed() > Duration::from_millis(300)
Elapsed == now - last_reload

\* variant: >= in place of >
DebounceElapsed_Ge == Elapsed >= Debounce

DebounceElapsed == Elapsed > Debounce

\* variant: the operands of && are exchanged, the swap runs on every call
graph_SwapFirst ==
    /\ pc = "idle"
    /\ consumed' = <<changed>>
    /\ changed' = FALSE
    /\ marked' = {}
    /\ absorbed' = marked
    /\ IF changed /\ DebounceElapsed
         THEN /\ EnterForceReload("graph")
              /\ UNCHANGED ret
         ELSE /\ ret' = [op |-> "graph", graph |-> shader_graph,
                         result |-> NoChange]
              /\ UNCHANGED <<pc, builds, via, last_auto>>
    /\ UNCHANGED <<now, fs_watch, sig_thread, last_log, last_reload,
                   shader_graph, built, open_ret, attempt_done, last_ok,
                   stored_after, location, sig_pc>>

\* graph(): the && short-circuits, so the swap runs only once the interval
\* has elapsed; the swap returns the old value and stores false
graph ==
    /\ pc = "idle"
    /\ IF DebounceElapsed
         THEN /\ consumed' = <<changed>>
              /\ changed' = FALSE
              /\ marked' = {}
              /\ absorbed' = marked
              /\ IF changed
                   THEN /\ EnterForceReload("graph")
                        /\ UNCHANGED ret
                   ELSE /\ ret' = [op |-> "graph", graph |-> shader_graph,
                                   result |-> NoChange]
                        /\ UNCHANGED <<pc, builds, via, last_auto>>
         ELSE /\ consumed' = <<>>
              /\ ret' = [op |-> "graph", graph |-> shader_graph,
                         result |-> NoChange]
              /\ UNCHANGED <<pc, builds, via, changed, marked, absorbed,
                             last_auto>>
    /\ UNCHANGED <<now, fs_watch, sig_thread, last_log, last_reload,
                   shader_graph, built, open_ret, attempt_done, last_ok,
                   stored_after, location, sig_pc>>

Next ==
    \/ \E d \in TickSteps : Tick(d)
    \/ FsEvent
    \/ FsError
    \/ Signal
    \/ SignalPrint
    \/ \E ok \in BOOLEAN : NewWatcher(ok)
    \/ \E ok \in BOOLEAN : SignalsNew(ok)
    \/ \E r \in build(builds) : FirstBuilt(r)
    \/ graph_no_reload
    \/ graph_force_reload
    \/ \E r \in build(builds) : Reloaded(r)
    \/ graph

Spec == Init /\ [][Next]_vars

\* ------------------------------------------------- unbounded executions
\* An Instant has no fixed origin: once the clock would pass LiveMaxTime its
\* origin is moved forward by d instead, which keeps every elapsed() that is
\* compared with Debounce on the same side of it (LiveMaxTime exceeds
\* Debounce by more than the longest step).
Rebase(t, d) == IF t = Never THEN Never ELSE IF t >= d THEN t - d ELSE 0

LiveTick(d) ==
    IF now + d <= LiveMaxTime
      THEN Tick(d)
      ELSE /\ last_reload' = Rebase(last_reload, d)
           /\ attempt_done' = Rebase(attempt_done, d)
           /\ last_auto' = Rebase(last_auto, d)
           /\ UNCHANGED <<pc, now, changed, fs_watch, sig_thread, last_log,
                          shader_graph, builds, built, via, ret, open_ret,
                          consumed, marked, absorbed, last_ok, stored_after,
                          location, sig_pc>>

\* builds still to come for what has already happened: the first build,
\* and the rebuild that a set flag will cause
Owed == (IF pc \in {"new", "signals"} THEN 1 ELSE 0)
         + (IF changed THEN 1 ELSE 0)

\* the environment stores only while a build is left for the store
LiveFsEvent == (changed \/ builds + Owed < MaxBuilds) /\ FsEvent
LiveSignal == (changed \/ builds + Owed < MaxBuilds) /\ Signal

\* the consumer forces a reload only while a build is left for it
LiveForceReload == builds + Owed < MaxBuilds /\ graph_force_reload

LiveNext ==
    \/ \E d \in TickSteps : LiveTick(d)
    \/ LiveFsEvent
    \/ FsError
    \/ LiveSignal
    \/ SignalPrint
    \/ \E ok \in BOOLEAN : NewWatcher(ok)
    \/ \E ok \in BOOLEAN : SignalsNew(ok)
    \/ \E r \in build(builds) : FirstBuilt(r)
    \/ graph_no_reload
    \/ LiveForceReload
    \/ \E r \in build(builds) : Reloaded(r)
    \/ graph

\* the consumer keeps calling graph(), time keeps advancing, builds return
LiveSpec ==
    /\ Init
    /\ [][LiveNext]_vars
    /\ WF_vars(graph)
    /\ WF_vars(\E d \in TickSteps : LiveTick(d))
    /\ WF_vars(\E r \in build(builds) : FirstBuilt(r))
    /\ WF_vars(\E r \in build(builds) : Reloaded(r))

\* a coordinator exists: new_watch_dir returned Ok
Constructed == pc \in {"idle", "reloading"}

\* steps of the consumer, told apart by what they do to its position
ReloadReturns == pc = "reloading" /\ pc' = "idle"
PollEntersReload == pc = "idle" /\ pc' = "reloading" /\ via' = "graph"
ForceEntersReload ==
    pc = "idle" /\ pc' = "reloading" /\ via' = "graph_force_reload"

----------------------------------------------------------------------------
\* C1: when build() returns an error to graph_force_reload (called directly
\* or from graph), the graph held after the call is the graph held before it,
\* the view returned is that graph, and the result is Err carrying exactly
\* the builder's message.
C1_FailedRebuildKeepsGraph ==
    [][(ReloadReturns /\ ~built'.ok) =>
          /\ shader_graph' = shader_graph
          /\ ret'.graph = shader_graph
          /\ ret'.result = Err(built'.error)
          /\ built'.error \in ErrMsgs]_vars

\* a rebuild started by graph() failed with the second error, graph 1 kept
C1_Witness ==
    /\ pc = "idle"
    /\ ret.op = "graph"
    /\ ret.result = Err("graph_from_sexp")
    /\ built = BuildErr("graph_from_sexp")
    /\ shader_graph = 1
    /\ builds = 2

\* C2: once new_watch_dir has succeeded, the held graph is always the graph
\* of the most recent build() that returned Ok; it is never absent.
C2_HeldGraphIsLastGoodBuild ==
    Constructed =>
        /\ shader_graph = last_ok
        /\ shader_graph # NoGraph
        /\ shader_graph \in 1..builds

\* a successful rebuild (graph 2) was followed by a failed one
C2_Witness ==
    /\ pc = "idle"
    /\ builds = 3
    /\ ~built.ok
    /\ shader_graph = 2
    /\ last_ok = 2

\* C3: graph() enters graph_force_reload only when strictly more than 300 ms
\* have passed since the last build() returned to the watcher (first build,
\* forced or automatic, Ok or Err); so also since the previous automatic one.
C3_DebounceSafety ==
    [][PollEntersReload =>
          /\ now - attempt_done > Debounce
          /\ (last_auto # Never => now - last_auto > Debounce)]_vars

\* a second automatic rebuild is running, the first one had failed
C3_Witness ==
    /\ pc = "reloading"
    /\ via = "graph"
    /\ builds = 3
    /\ ~built.ok
    /\ ret.op = "graph"
    /\ last_auto = now

\* C4: graph() rebuilds iff more than 300 ms have elapsed since last_reload
\* and the swap returned true; then build() is invoked exactly once, the flag
\* is false after the swap, and the call returns Rebuilt or Err(message) as
\* graph_force_reload does; otherwise it returns NoChange without a build.
\* At exactly 300 ms it returns NoChange.
C4_PollRebuildsIffElapsedAndChanged ==
    [][/\ graph =>
            IF now - last_reload > Debounce /\ changed
              THEN /\ PollEntersReload
                   /\ builds' = builds + 1
                   /\ changed' = FALSE
                   /\ consumed' = <<TRUE>>
              ELSE /\ pc' = "idle"
                   /\ builds' = builds
                   /\ ret'.op = "graph"
                   /\ ret'.result = NoChange
                   /\ ret'.graph = shader_graph
       /\ pc = "reloading" => builds' = builds
       /\ (ReloadReturns /\ via = "graph") =>
            /\ ret'.op = "graph"
            /\ ret'.result = (IF built'.ok THEN Rebuilt ELSE Err(built'.error))
            /\ ret'.graph = shader_graph']_vars

\* graph() consumed the flag, rebuilt and returned Rebuilt
C4_Witness ==
    /\ pc = "idle"
    /\ ret.op = "graph"
    /\ ret.result = Rebuilt
    /\ consumed = <<TRUE>>
    /\ shader_graph = builds
    /\ builds = 2

\* graph() returned NoChange at exactly 300 ms with the flag set
C4_WitnessBoundary ==
    /\ pc = "idle"
    /\ ret.op = "graph"
    /\ ret.result = NoChange
    /\ now - last_reload = Debounce
    /\ changed
    /\ consumed = <<>>

\* graph() returned NoChange in this step
PollReturnsNoChange == graph /\ pc' = "idle"

\* C5 as stated: a graph() that returns NoChange has neither consulted (run
\* the swap on) nor cleared the flag.
C5_NoChangeNeverConsults ==
    [][PollReturnsNoChange =>
          /\ ret'.result = NoChange
          /\ consumed' = <<>>
          /\ changed' = changed]_vars

\* C5 amended: a graph() that returns NoChange leaves the flag's value as it
\* was.  Within the debounce interval it runs no swap, so a pending store
\* stays pending and every graph() in that window returns NoChange.  Past the
\* interval it does run the swap, and returns NoChange exactly when the swap
\* found the flag already false.
C5_NoChangeKeepsFlag ==
    [][/\ PollReturnsNoChange =>
            /\ ret'.result = NoChange
            /\ changed' = changed
            /\ marked' = marked
            /\ IF now - last_reload > Debounce
                 THEN consumed' = <<FALSE>> /\ ~changed
                 ELSE consumed' = <<>>
       /\ (graph /\ marked # {} /\ now - last_reload <= Debounce) =>
            /\ PollReturnsNoChange
            /\ changed'
            /\ builds' = builds]_vars

\* a store was made, graph() ran within the interval and left it pending
C5_Witness ==
    /\ pc = "idle"
    /\ ret.op = "graph"
    /\ ret.result = NoChange
    /\ consumed = <<>>
    /\ changed
    /\ marked = {"notify"}
    /\ now - last_reload = 150

\* C6: the flag is set exactly when some producer stored true since the last
\* swap, whatever the number and interleaving of the stores; the swap returns
\* true iff there was such a store and leaves the flag false, so the next
\* swap returns false unless a store came in between; a store is never
\* undone by anything but a swap that returned true.
C6_NoLostMark ==
    /\ [](changed <=> marked # {})
    /\ [][/\ (graph /\ consumed' # <<>>) =>
                /\ consumed' = <<marked # {}>>
                /\ absorbed' = marked
                /\ ~changed'
          /\ (FsEvent \/ Signal) => changed'
          /\ (changed /\ ~changed') => (graph /\ consumed' = <<TRUE>>)]_vars

\* stores by both producers were coalesced into one swap that returned true
C6_Witness ==
    /\ pc = "reloading"
    /\ via = "graph"
    /\ consumed = <<TRUE>>
    /\ absorbed = {"notify", "signal"}
    /\ marked = {}
    /\ ~changed

\* the swap after it, with no store in between, returned false
C6_WitnessNext ==
    /\ pc = "idle"
    /\ ret.op = "graph"
    /\ ret.result = NoChange
    /\ consumed = <<FALSE>>
    /\ absorbed = {}
    /\ builds = 2

\* C7: graph_force_reload can be called in every state of the coordinator,
\* whatever the elapsed time and the flag, and each call invokes build()
\* exactly once; when build() returns Ok the new graph is held and the call
\* returns Rebuilt with it.
C7_ForceReloadAlwaysBuilds ==
    /\ []((pc = "idle" /\ builds < MaxBuilds) => ENABLED graph_force_reload)
    /\ [][/\ graph_force_reload =>
                /\ ForceEntersReload
                /\ builds' = builds + 1
                /\ changed' = changed
          /\ (pc = "reloading" /\ via = "graph_force_reload") =>
                builds' = builds
          /\ (ReloadReturns /\ via = "graph_force_reload" /\ built'.ok) =>
                /\ shader_graph' = built'.graph
                /\ shader_graph' = builds
                /\ ret' = [op |-> "graph_force_reload", graph |-> builds,
                           result |-> Rebuilt]]_vars

\* a forced reload is building within the interval, with the flag clear
C7_Witness ==
    /\ pc = "reloading"
    /\ via = "graph_force_reload"
    /\ now - last_reload < Debounce
    /\ ~changed
    /\ builds = 2

\* a forced reload made with the flag set returned Rebuilt
C7_WitnessRebuilt ==
    /\ pc = "idle"
    /\ ret = [op |-> "graph_force_reload", graph |-> 2, result |-> Rebuilt]
    /\ changed
    /\ shader_graph = 2

\* C8: every return of graph_force_reload, Ok or Err, sets last_reload to the
\* current instant; so a graph() made with a pending store within 300 ms of
\* a failed attempt returns NoChange and starts no build.
C8_ClockIsLastAttempt ==
    [][/\ ReloadReturns => last_reload' = now
       /\ (graph /\ ~built.ok /\ marked # {}
              /\ now - attempt_done <= Debounce) =>
            /\ PollReturnsNoChange
            /\ ret'.result = NoChange
            /\ builds' = builds
            /\ changed']_vars

\* 300 ms after a failed attempt graph() returned NoChange, store pending
C8_Witness ==
    /\ pc = "idle"
    /\ ~built.ok
    /\ ret.op = "graph"
    /\ ret.result = NoChange
    /\ changed
    /\ now - attempt_done = Debounce
    /\ last_reload = attempt_done

\* C9: after a store, a graph() made once more than 300 ms have elapsed on
\* the debounce clock rebuilds; if build() returns Ok it returns Rebuilt,
\* holds the new graph and sets the clock to now; a graph() made right after
\* (within the interval) returns NoChange and leaves the graph as it is.
C9_RebuildThenNoChange ==
    [][/\ (graph /\ marked # {} /\ now - last_reload > Debounce) =>
            PollEntersReload
       /\ (ReloadReturns /\ via = "graph" /\ built'.ok) =>
            /\ ret'.result = Rebuilt
            /\ shader_graph' = builds
            /\ ret'.graph = builds
            /\ last_reload' = now
       /\ (graph /\ ret.op = "graph" /\ ret.result = Rebuilt
              /\ now - attempt_done <= Debounce) =>
            /\ PollReturnsNoChange
            /\ ret'.result = NoChange
            /\ ret'.graph = shader_graph
            /\ shader_graph' = shader_graph]_vars

\* graph() rebuilt graph 2; the graph() right after it returned NoChange
C9_Witness ==
    /\ pc = "idle"
    /\ via = "graph"
    /\ built = BuildOk(2)
    /\ ret = [op |-> "graph", graph |-> 2, result |-> NoChange]
    /\ shader_graph = 2
    /\ now = last_reload
    /\ last_auto # Never

\* C10: when the first build() returns an error, new_watch_dir returns Err
\* with that error and no watcher exists: no method can be called, and every
\* state in which a watcher exists holds a graph that was built.
C10_FailedFirstBuildFailsOpen ==
    /\ [][(pc = "first_build" /\ pc' # pc /\ ~built'.ok) =>
              /\ pc' = "open_err"
              /\ open_ret' = OpenErr(built'.error)
              /\ built'.error \in ErrMsgs
              /\ shader_graph' = NoGraph]_vars
    /\ [](pc = "open_err" =>
            /\ ~ENABLED graph
            /\ ~ENABLED graph_force_reload
            /\ ~ENABLED graph_no_reload
            /\ ~built.ok)
    /\ [](Constructed => (open_ret = OpenOk /\ shader_graph # NoGraph))

\* new_watch_dir returned the first error of build()
C10_Witness ==
    /\ pc = "open_err"
    /\ open_ret = OpenErr("shader_dir")
    /\ builds = 1
    /\ shader_graph = NoGraph

\* C11 as stated: after graph() or graph_force_reload returned Err, with no
\* store since that return and no graph_force_reload call, every graph()
\* returns NoChange and starts no build.
C11_NoRebuildAfterFailure ==
    [][(graph /\ ~built.ok /\ ~stored_after) =>
          /\ PollReturnsNoChange
          /\ builds' = builds]_vars

\* C11 amended: after graph() or graph_force_reload returned Err, as long as
\* no store is pending (none was left unconsumed before or during the failed
\* build and none was made since) and graph_force_reload is not called, every
\* graph() returns NoChange and starts no build, whatever the elapsed time;
\* the graph held stays the last one that was built.
C11_NoRetryWithoutPendingStore ==
    [][(graph /\ ~built.ok /\ marked = {}) =>
          /\ PollReturnsNoChange
          /\ ret'.result = NoChange
          /\ builds' = builds
          /\ shader_graph' = shader_graph
          /\ ret'.graph = last_ok]_vars

\* long after a failed automatic rebuild graph() returned NoChange
C11_Witness ==
    /\ pc = "idle"
    /\ ~built.ok
    /\ via = "graph"
    /\ ret.op = "graph"
    /\ ret.result = NoChange
    /\ consumed = <<FALSE>>
    /\ now - attempt_done > Debounce
    /\ builds = 2
    /\ shader_graph = 1

\* C12: graph_no_reload starts no build and leaves the flag, last_reload and
\* the held graph as they were; it returns the held graph.
C12_PeekChangesNothing ==
    [][graph_no_reload =>
          /\ UNCHANGED <<changed, last_reload, shader_graph, builds, pc>>
          /\ (marked # {} => changed')
          /\ ret'.op = "graph_no_reload"
          /\ ret'.graph = shader_graph]_vars

\* graph_no_reload returned past the interval with a store still pending
C12_Witness ==
    /\ pc = "idle"
    /\ ret = [op |-> "graph_no_reload", graph |-> 1, result |-> NoResult]
    /\ changed
    /\ marked # {}
    /\ now - last_reload > Debounce
    /\ builds = 1

\* C13: when the filesystem watch cannot be set up, new_watch_dir does not
\* return a watcher: the failure leaves it at once (the unwrap panics with
\* the setup error), before the signal thread and the first build, and no
\* method of a watcher can ever be called.
C13_WatchSetupFailureFailsOpen ==
    /\ [][/\ NewWatcher(FALSE) =>
               /\ pc' = "panicked"
               /\ open_ret' = OpenPanic
          /\ pc = "panicked" => pc' = "panicked"]_vars
    /\ [](pc = "panicked" =>
            /\ open_ret.kind # "Ok"
            /\ shader_graph = NoGraph
            /\ builds = 0
            /\ ~fs_watch /\ ~sig_thread
            /\ ~ENABLED graph
            /\ ~ENABLED graph_force_reload
            /\ ~ENABLED graph_no_reload)

\* the watch could not be set up; time went on, nothing else can happen
C13_Witness ==
    /\ pc = "panicked"
    /\ open_ret = OpenPanic
    /\ builds = 0
    /\ now > 0

\* the signal listener could not be installed and a watcher exists
NoSignals == Constructed /\ ~sig_thread

\* C14: when Signals::new fails, construction goes on to the first build and
\* succeeds if it does; in the resulting watcher the notify callback is
\* alive and still sets the flag, and a graph() past the interval with such
\* a store pending still rebuilds.
C14_SignalFailureNotFatal ==
    /\ [][/\ SignalsNew(FALSE) =>
               /\ pc' = "first_build"
               /\ fs_watch'
               /\ last_log' = "signal_listen_error"
          /\ (pc = "first_build" /\ ~sig_thread /\ pc' # pc /\ built'.ok) =>
               /\ pc' = "idle"
               /\ open_ret' = OpenOk
               /\ shader_graph' = built'.graph
          /\ (FsEvent /\ NoSignals) => changed'
          /\ (graph /\ NoSignals /\ marked # {}
                 /\ now - last_reload > Debounce) =>
               /\ PollEntersReload
               /\ builds' = builds + 1]_vars
    /\ [](NoSignals => (fs_watch /\ ENABLED FsEvent /\ marked \subseteq {"notify"}))

\* without the signal thread, a filesystem event led graph() to rebuild
C14_Witness ==
    /\ pc = "idle"
    /\ ~sig_thread
    /\ ret = [op |-> "graph", graph |-> 2, result |-> Rebuilt]
    /\ absorbed = {"notify"}
    /\ shader_graph = 2

\* C15: a delivery error of the watch only logs: the flag keeps its value,
\* nothing of the watcher changes, no build starts, and the callback stays
\* alive, so that a later event still sets the flag.
C15_WatchErrorIgnored ==
    /\ [][/\ FsError =>
               /\ UNCHANGED <<changed, fs_watch, pc, builds, shader_graph,
                              last_reload>>
               /\ last_log' = "watch_error"
          /\ FsEvent => changed']_vars
    /\ []((last_log = "watch_error" /\ Constructed) =>
            (fs_watch /\ ENABLED FsEvent))
    /\ [][(graph /\ last_log = "watch_error" /\ marked = {}) =>
             PollReturnsNoChange]_vars

\* after a delivery error graph() found the flag clear past the interval
C15_Witness ==
    /\ pc = "idle"
    /\ fs_watch
    /\ last_log = "watch_error"
    /\ ~changed
    /\ marked = {}
    /\ absorbed = {}
    /\ ret.op = "graph"
    /\ ret.result = NoChange
    /\ consumed = <<FALSE>>
    /\ builds = 1

\* an event after a delivery error set the flag
C15_WitnessLater ==
    /\ pc = "idle"
    /\ last_log = "watch_error"
    /\ consumed = <<FALSE>>
    /\ changed
    /\ marked = {"notify"}

\* a step of one of the producers
ProducerStep == FsEvent \/ FsError \/ Signal \/ SignalPrint

\* C16: a step of the notify callback or of the signal thread leaves the
\* held graph, last_reload, path and config as they were, starts and ends no
\* build, and never turns the flag from true to false; the flag is turned
\* false only by the swap of graph().
C16_ProducersOnlySetFlag ==
    [][/\ ProducerStep =>
            /\ UNCHANGED <<shader_graph, last_reload, location, builds,
                           built, pc, ret>>
            /\ (changed => changed')
       /\ (FsEvent \/ Signal) => changed'
       /\ (changed /\ ~changed') => (graph /\ ~ProducerStep)]_vars

\* the signal thread stored true while a rebuild was running
C16_Witness ==
    /\ pc = "reloading"
    /\ via = "graph"
    /\ consumed = <<TRUE>>
    /\ sig_pc = "print"
    /\ last_log # "signal"
    /\ marked = {"signal"}
    /\ changed

\* new_watch_dir returns Ok in this step
OpenReturnsOk == pc = "first_build" /\ pc' = "idle"

\* C17 as stated: when new_watch_dir returns Ok the flag is false,
\* last_reload is the instant the first build finished and the graph held is
\* that build's.
C17_OpenReturnsClean ==
    [][OpenReturnsOk =>
          /\ ~changed'
          /\ last_reload' = now
          /\ shader_graph' = built'.graph]_vars

\* C17 amended: the flag is created false, before the sources are
\* registered.  When new_watch_dir returns Ok, the flag is true exactly when
\* a source stored into it during construction (once registered, for
\* instance during the first build) and false otherwise; last_reload is the
\* instant the first build finished and the graph held is that build's.
C17_OpenKeepsStoresOfConstruction ==
    /\ [](pc = "new" => (~changed /\ marked = {}))
    /\ [][OpenReturnsOk =>
             /\ changed' = (marked # {})
             /\ changed' = changed
             /\ last_reload' = now
             /\ attempt_done' = now
             /\ built' = BuildOk(1)
             /\ shader_graph' = 1
             /\ open_ret' = OpenOk]_vars

\* new_watch_dir has just returned Ok with a store of the first build pending
C17_Witness ==
    /\ pc = "idle"
    /\ builds = 1
    /\ ret.op = "none"
    /\ changed
    /\ marked = {"notify"}
    /\ last_reload = now
    /\ now > 0

\* new_watch_dir has just returned Ok with the flag false
C17_WitnessClean ==
    /\ pc = "idle"
    /\ builds = 1
    /\ ret.op = "none"
    /\ ~changed
    /\ last_reload = now

\* C19: a direct graph_force_reload neither reads nor writes the flag: a store
\* pending when it is called is pending when it returns, and the first
\* graph() made more than 300 ms later swaps it and starts another build.
C19_ForceReloadKeepsFlag ==
    [][/\ graph_force_reload => UNCHANGED <<changed, marked, consumed>>
       /\ (pc = "reloading" /\ via = "graph_force_reload") =>
            (changed => changed') /\ consumed' = consumed
       /\ (graph /\ via = "graph_force_reload" /\ marked # {}
              /\ now - attempt_done > Debounce) =>
            /\ PollEntersReload
            /\ consumed' = <<TRUE>>
            /\ builds' = builds + 1]_vars

\* one store, made before a forced reload, is being rebuilt for again
C19_Witness ==
    /\ pc = "reloading"
    /\ via = "graph"
    /\ builds = 3
    /\ absorbed = {"notify"}
    /\ ~stored_after
    /\ ret.op = "graph_force_reload"
    /\ consumed = <<TRUE>>

\* a rebuild entered by graph() is running and no store is newer than it
RebuildCoversStores == pc = "reloading" /\ via = "graph" /\ marked = {}

\* C18: in a watcher whose consumer keeps calling graph() while time keeps
\* advancing, every store made once the sources are registered (also one made
\* during the first build or during a rebuild) is followed by a rebuild that
\* graph() enters after the store.
C18_EveryStoreIsRebuilt ==
    (Constructed /\ marked # {}) ~> RebuildCoversStores

\* the budget of builds is never overdrawn, so graph() is never held back
C18_BuildLeft == (Constructed /\ changed) => builds < MaxBuilds

\* graph() entered the third build: it covers every store made so far
C18_Witness ==
    /\ RebuildCoversStores
    /\ builds = 3
    /\ absorbed # {}
    /\ consumed = <<TRUE>>
    /\ last_auto = now
    /\ last_reload < now

----------------------------------------------------------------------------
TypeOK ==
    /\ pc \in {"new", "signals", "first_build", "idle", "reloading",
               "open_err", "panicked"}
    /\ now \in 0..MaxTime
    /\ changed \in BOOLEAN
    /\ last_reload \in 0..MaxTime
    /\ shader_graph \in 0..MaxBuilds
    /\ builds \in 0..MaxBuilds
====
